---- MODULE Spec2Model ----
\* lsaddr: decoding of lsof/netstat output, address parsing, filter building,
\* the net-file lookup pipeline and the packet-filter encoder.
\*
\* Go strings are modelled as sequences of one-character strings, so that
\* strings.Split, strings.Contains, strings.Trim and regexp matching are
\* computed character by character as the library computes them.
EXTENDS Integers, Sequences, FiniteSets, TLC

\* ---------------------------------------------------------------------------
\* Go "strings" package, as used by the sources
\* ---------------------------------------------------------------------------

SubStr(s, i, j) == IF i > j THEN <<>> ELSE SubSeq(s, i, j)

\* whether `sub` occurs in `s` at position i
OccursAt(s, sub, i) ==
    /\ i >= 1
    /\ i + Len(sub) - 1 <= Len(s)
    /\ \A k \in 1..Len(sub) : s[i + k - 1] = sub[k]

\* the first position >= i where `sub` occurs in `s`; 0 when there is none
IndexFrom(s, sub, i) ==
    LET last == Len(s) - Len(sub) + 1
    IN  IF \E j \in i..last : OccursAt(s, sub, j)
        THEN CHOOSE j \in i..last :
                 OccursAt(s, sub, j) /\ \A k \in i..(j - 1) : ~OccursAt(s, sub, k)
        ELSE 0

\* strings.Index, 1-based; 0 when `sub` does not occur
Index(s, sub) == IndexFrom(s, sub, 1)

\* strings.LastIndex, 1-based; 0 when `sub` does not occur
LastIndex(s, sub) ==
    LET hits == {i \in 1..(Len(s) + 1) : OccursAt(s, sub, i)}
    IN  IF hits = {} THEN 0 ELSE CHOOSE i \in hits : \A j \in hits : i >= j

Contains(s, sub) == Index(s, sub) # 0

HasSuffix(s, suf) ==
    Len(s) >= Len(suf) /\ SubStr(s, Len(s) - Len(suf) + 1, Len(s)) = suf

\* the pieces of s from position `start` on, cut at each occurrence of sep
RECURSIVE SplitFrom(_, _, _)
SplitFrom(s, sep, start) ==
    LET i == IndexFrom(s, sep, start)
    IN  IF i = 0 THEN <<SubStr(s, start, Len(s))>>
        ELSE <<SubStr(s, start, i - 1)>> \o SplitFrom(s, sep, i + Len(sep))

\* strings.Split(s, sep) for a non-empty sep: always at least one element
Split(s, sep) == SplitFrom(s, sep, 1)

RECURSIVE TrimLeft(_, _)
TrimLeft(s, c) == IF Len(s) > 0 /\ s[1] = c THEN TrimLeft(Tail(s), c) ELSE s

RECURSIVE TrimRight(_, _)
TrimRight(s, c) ==
    IF Len(s) > 0 /\ s[Len(s)] = c THEN TrimRight(SubStr(s, 1, Len(s) - 1), c) ELSE s

\* strings.Trim(s, c) for a one-character cutset
Trim(s, c) == TrimLeft(TrimRight(s, c), c)

RECURSIVE Join(_, _)
Join(ss, sep) ==
    IF Len(ss) = 0 THEN <<>>
    ELSE IF Len(ss) = 1 THEN ss[1]
    ELSE ss[1] \o sep \o Join(Tail(ss), sep)

UpperChars == <<"A", "B", "C", "D", "E", "F", "G", "H", "I", "J", "K", "L", "M",
                "N", "O", "P", "Q", "R", "S", "T", "U", "V", "W", "X", "Y", "Z">>
LowerChars == <<"a", "b", "c", "d", "e", "f", "g", "h", "i", "j", "k", "l", "m",
                "n", "o", "p", "q", "r", "s", "t", "u", "v", "w", "x", "y", "z">>

LowerChar(c) ==
    IF \E i \in 1..Len(UpperChars) : UpperChars[i] = c
    THEN LowerChars[CHOOSE i \in 1..Len(UpperChars) : UpperChars[i] = c]
    ELSE c

\* strings.ToLower
ToLower(s) == [i \in 1..Len(s) |-> LowerChar(s[i])]

Digits == <<"0", "1", "2", "3", "4", "5", "6", "7", "8", "9">>

IsDigit(c) == \E i \in 1..10 : Digits[i] = c

DigitVal(c) == (CHOOSE i \in 1..10 : Digits[i] = c) - 1

RECURSIVE Atoi(_)
Atoi(s) == IF Len(s) = 0 THEN 0 ELSE Atoi(SubStr(s, 1, Len(s) - 1)) * 10 + DigitVal(s[Len(s)])

RECURSIVE Itoa(_)
Itoa(n) == IF n < 10 THEN <<Digits[n + 1]>> ELSE Itoa(n \div 10) \o <<Digits[(n % 10) + 1]>>

\* ---------------------------------------------------------------------------
\* Address Parser (internal/utils.go, ParseNetAddr) and the net package
\* calls it makes
\* ---------------------------------------------------------------------------

sTCP == <<"t", "c", "p">>
sUDP == <<"u", "d", "p">>

NoErr == [kind |-> "nil", arg |-> <<>>]
Err(k, a) == [kind |-> k, arg |-> a]

\* the unset address: String() and Network() are empty
NoAddr == [set |-> FALSE, net |-> <<>>, ip |-> <<>>, port |-> 0]

\* IP literals net.ParseIP accepts (canonical text forms)
IP4Literals == { <<"1", "0", ".", "0", ".", "0", ".", "1">>,
                 <<"1", "0", ".", "0", ".", "0", ".", "6", "1">> }
IP6Literals == { <<":", ":", "1">> }

\* net.SplitHostPort
SplitHostPort(hp) ==
    LET i == LastIndex(hp, <<":">>)
        bad(why) == [host |-> <<>>, port |-> <<>>, err |-> Err(why, hp)]
    IN  IF i = 0 THEN bad("missing port in address")
        ELSE IF hp[1] = "["
        THEN LET end == Index(hp, <<"]">>)
             IN  IF end = 0 THEN bad("missing ']' in address")
                 ELSE IF end = Len(hp) THEN bad("missing port in address")
                 ELSE IF end + 1 # i
                 THEN (IF hp[end + 1] = ":" THEN bad("too many colons in address")
                       ELSE bad("missing port in address"))
                 ELSE IF Contains(SubStr(hp, 2, Len(hp)), <<"[">>)
                 THEN bad("unexpected '[' in address")
                 ELSE IF Contains(SubStr(hp, end + 1, Len(hp)), <<"]">>)
                 THEN bad("unexpected ']' in address")
                 ELSE [host |-> SubStr(hp, 2, end - 1),
                       port |-> SubStr(hp, i + 1, Len(hp)), err |-> NoErr]
        ELSE IF Contains(SubStr(hp, 1, i - 1), <<":">>)
        THEN bad("too many colons in address")
        ELSE IF Contains(hp, <<"[">>) THEN bad("unexpected '[' in address")
        ELSE IF Contains(hp, <<"]">>) THEN bad("unexpected ']' in address")
        ELSE [host |-> SubStr(hp, 1, i - 1),
              port |-> SubStr(hp, i + 1, Len(hp)), err |-> NoErr]

\* net.JoinHostPort
JoinHostPort(host, port) ==
    IF Contains(host, <<":">>) THEN <<"[">> \o host \o <<"]", ":">> \o port
    ELSE host \o <<":">> \o port

\* resolution of "host:port" for the network family `fam` ("", "4" or "6"),
\* as net.ResolveTCPAddr and net.ResolveUDPAddr do it (internetAddrList)
ResolveInet(proto, fam, addr) ==
    LET hp == SplitHostPort(addr)
        fail(e) == [addr |-> NoAddr, err |-> e]
    IN  IF hp.err # NoErr THEN fail(hp.err)
        ELSE IF \E k \in 1..Len(hp.port) : ~IsDigit(hp.port[k])
        THEN fail(Err("unknown port", hp.port))
        ELSE IF hp.host = <<>>
        THEN [addr |-> [set |-> TRUE, net |-> proto, ip |-> <<>>,
                        port |-> Atoi(hp.port)], err |-> NoErr]
        ELSE IF hp.host \notin (IP4Literals \cup IP6Literals)
        THEN fail(Err("no such host", hp.host))
        ELSE IF \/ (fam = <<"4">> /\ hp.host \notin IP4Literals)
                \/ (fam = <<"6">> /\ hp.host \notin IP6Literals)
        THEN fail(Err("no suitable address found", hp.host))
        ELSE [addr |-> [set |-> TRUE, net |-> proto, ip |-> hp.host,
                        port |-> Atoi(hp.port)], err |-> NoErr]

\* net.ResolveTCPAddr(network, address): only "tcp", "tcp4" and "tcp6" are
\* known networks
ResolveTCPAddr(network, addr) ==
    IF network \in {sTCP, sTCP \o <<"4">>, sTCP \o <<"6">>}
    THEN ResolveInet(sTCP, SubStr(network, 4, Len(network)), addr)
    ELSE [addr |-> NoAddr, err |-> Err("unknown network", network)]

\* net.ResolveUDPAddr(network, address): only "udp", "udp4" and "udp6"
ResolveUDPAddr(network, addr) ==
    IF network \in {sUDP, sUDP \o <<"4">>, sUDP \o <<"6">>}
    THEN ResolveInet(sUDP, SubStr(network, 4, Len(network)), addr)
    ELSE [addr |-> NoAddr, err |-> Err("unknown network", network)]

\* (*net.TCPAddr).String / (*net.UDPAddr).String; empty for the unset address
AddrString(a) ==
    IF ~a.set THEN <<>> ELSE JoinHostPort(a.ip, Itoa(a.port))

\* (*net.TCPAddr).Network / (*net.UDPAddr).Network
AddrNetwork(a) == a.net

\* ParseNetAddr with the TCP resolver in the UDP case as well
ParseNetAddrTcpResolver(network, addr) ==
    LET n == ToLower(network)
    IN  IF Contains(n, sTCP) THEN ResolveTCPAddr(n, addr)
        ELSE IF Contains(n, sUDP) THEN ResolveTCPAddr(n, addr)
        ELSE [addr |-> NoAddr, err |-> Err("unsupported network", n)]

ParseNetAddr(network, addr) ==
    LET n == ToLower(network)
    IN  IF Contains(n, sTCP) THEN ResolveTCPAddr(n, addr)
        ELSE IF Contains(n, sUDP) THEN ResolveUDPAddr(n, addr)
        ELSE [addr |-> NoAddr, err |-> Err("unsupported network", n)]

\* ---------------------------------------------------------------------------
\* Name Splitter: OpenFile.UnmarshalName
\* ---------------------------------------------------------------------------

sArrow == <<"-", ">">>

\* src and dst of an open file; `err` is the first parse failure, which the
\* two-valued signature used by OpenNetFiles cannot hand to the caller
UnmarshalName(f) ==
    LET chunks == Split(f.Name, sArrow)
        s == ParseNetAddr(f.Node, chunks[1])
        d == IF Len(chunks) >= 2 THEN ParseNetAddr(f.Node, chunks[2])
             ELSE [addr |-> NoAddr, err |-> NoErr]
    IN  [src |-> s.addr, dst |-> d.addr,
         err |-> IF s.err # NoErr THEN s.err ELSE d.err]

\* ---------------------------------------------------------------------------
\* Line Chunker and Line Scanner (internal/utils.go)
\* ---------------------------------------------------------------------------

RECURSIVE DropEmpty(_)
DropEmpty(items) ==
    IF Len(items) = 0 THEN <<>>
    ELSE IF items[1] = <<>> THEN DropEmpty(Tail(items))
    ELSE <<items[1]>> \o DropEmpty(Tail(items))

\* ChunkLine without the skip of empty items
ChunkLineKeepEmpty(line, sep, min) ==
    LET chunks == Split(line, sep)
    IN  IF Len(chunks) < min
        THEN [chunks |-> chunks, err |-> Err("unable to chunk line", line)]
        ELSE [chunks |-> chunks, err |-> NoErr]

ChunkLine(line, sep, min) ==
    LET chunks == DropEmpty(Split(line, sep))
    IN  IF Len(chunks) < min
        THEN [chunks |-> chunks, err |-> Err("unable to chunk line", line)]
        ELSE [chunks |-> chunks, err |-> NoErr]

\* bufio.ScanLines drops one trailing carriage return of a token
DropCR(tok) ==
    IF Len(tok) > 0 /\ tok[Len(tok)] = "\r" THEN SubStr(tok, 1, Len(tok) - 1) ELSE tok

\* bufio.Scanner.Scan with the default split function on the unread bytes `b`:
\* the next token and what is left; the last line needs no terminator
ScannerNext(b) ==
    LET i == Index(b, <<"\n">>)
    IN  IF i = 0 THEN [tok |-> DropCR(b), rest |-> <<>>]
        ELSE [tok |-> DropCR(SubStr(b, 1, i - 1)), rest |-> SubStr(b, i + 1, Len(b))]

\* the line ScanLines hands to its callback
ScanLinesText(tok) == Trim(Trim(tok, "\n"), "\r")

\* ---------------------------------------------------------------------------
\* Open-file decoders
\* ---------------------------------------------------------------------------

\* mandatory lsof columns: COMMAND PID USER FD TYPE DEVICE SIZE/OFF NODE NAME
LsofMinFields == 9

NoFile == [Command |-> <<>>, Pid |-> <<>>, User |-> <<>>, Fd |-> <<>>, Type |-> <<>>,
           Device |-> <<>>, Node |-> <<>>, Name |-> <<>>, State |-> <<>>]

UnmarshalLsofLine(line) ==
    LET c == ChunkLine(line, <<" ">>, LsofMinFields)
    IN  IF c.err # NoErr THEN [ok |-> FALSE, file |-> NoFile, err |-> c.err]
        ELSE [ok |-> TRUE,
              file |-> [Command |-> c.chunks[1], Pid |-> c.chunks[2],
                        User |-> c.chunks[3], Fd |-> c.chunks[4],
                        Type |-> c.chunks[5], Device |-> c.chunks[6],
                        Node |-> c.chunks[8], Name |-> c.chunks[9],
                        State |-> IF Len(c.chunks) >= 10 THEN c.chunks[10] ELSE <<>>],
              err |-> NoErr]

\* smallest netstat data row: PROTO LOCAL FOREIGN PID (no STATE)
NetstatMinFields == 4

\* a netstat line is a data row when it has the 4 or 5 columns of one and its
\* first column names a transport protocol; every other line is noise
UnmarshalNetstatLine(line) ==
    LET c == ChunkLine(line, <<" ">>, NetstatMinFields)
        n == Len(c.chunks)
    IN  IF c.err # NoErr THEN [ok |-> FALSE, file |-> NoFile, err |-> c.err]
        ELSE IF n > NetstatMinFields + 1 \/ ToLower(c.chunks[1]) \notin {sTCP, sUDP}
        THEN [ok |-> FALSE, file |-> NoFile, err |-> Err("not a data row", line)]
        ELSE [ok |-> TRUE,
              file |-> [NoFile EXCEPT !.Node = c.chunks[1],
                                      !.Name = c.chunks[2] \o sArrow \o c.chunks[3],
                                      !.State = IF n = 5 THEN c.chunks[4] ELSE <<>>,
                                      !.Pid = c.chunks[n]],
              err |-> NoErr]

\* bracketed owner annotation: [name]
IsAnnotation(line) ==
    LET x == Trim(line, " ")
    IN  Len(x) >= 2 /\ x[1] = "[" /\ x[Len(x)] = "]"

AnnotationName(line) ==
    LET x == Trim(line, " ") IN SubStr(x, 2, Len(x) - 1)

\* ---------------------------------------------------------------------------
\* Filter Builder (darwin) and regular expressions
\* ---------------------------------------------------------------------------

sApp == <<".", "a", "p", "p">>

\* pids(proc): `pg` is the outcome of running pgrep, its output and error
pids(pg) ==
    IF pg.err THEN <<>>
    ELSE Split(Trim(pg.out, "\n"), <<"\n">>)

\* prepareNFExpr(s) where `statOk` is the outcome of os.Stat(s), `app` that of
\* appName(path) and `pg` that of pgrep
prepareNFExpr(sel, statOk, app, pg) ==
    IF ~statOk THEN sel
    ELSE LET path == TrimRight(sel, "/")
         IN  IF ~HasSuffix(path, sApp) THEN sel
             ELSE IF app.err THEN sel
             ELSE IF Len(pids(pg)) = 0 THEN sel
             ELSE Join(pids(pg), <<"|">>)

\* regexp.Compile on the patterns used here: literals, "." and "|"; an
\* unclosed group is a syntax error
RegexpCompileErr(expr) == Contains(expr, <<"(">>)

\* whether alternative `alt` matches `line` at position i ("." is any character)
AltMatchesAt(alt, line, i) ==
    /\ i + Len(alt) - 1 <= Len(line)
    /\ \A k \in 1..Len(alt) : alt[k] = "." \/ alt[k] = line[i + k - 1]

\* a match that is tried at the start of the line only
RegexpMatchAtStart(expr, line) ==
    LET alts == Split(expr, <<"|">>)
    IN  \E a \in 1..Len(alts) : AltMatchesAt(alts[a], line, 1)

\* (*regexp.Regexp).Match: unanchored, any alternative anywhere in the line
RegexpMatch(expr, line) ==
    LET alts == Split(expr, <<"|">>)
    IN  \E a \in 1..Len(alts) : \E i \in 1..(Len(line) + 1) : AltMatchesAt(alts[a], line, i)

\* pipe.Filter over the lines of the line source's output
RECURSIVE PipeFilter(_, _)
PipeFilter(expr, b) ==
    IF Len(b) = 0 THEN <<>>
    ELSE LET n == ScannerNext(b)
         IN  (IF RegexpMatch(expr, n.tok) THEN n.tok \o <<"\n">> ELSE <<>>)
             \o PipeFilter(expr, n.rest)

\* ---------------------------------------------------------------------------
\* Net-file lookup helpers and encoders
\* ---------------------------------------------------------------------------

\* the NetFile made of one decoded open file (OpenNetFiles, the mapping loop)
ToNetFile(f) ==
    LET u == UnmarshalName(f)
    IN  [Command |-> f.Command, Src |-> u.src, Dst |-> u.dst]

\* Hosts(ff): all source addresses, and all destination addresses
HostsSrc(ff) == [i \in 1..Len(ff) |-> ff[i].Src]
\* Hosts appending the source where the destination belongs
HostsDstFromSrc(ff) == [i \in 1..Len(ff) |-> ff[i].Src]

HostsDst(ff) == [i \in 1..Len(ff) |-> ff[i].Dst]

\* addresses without the later duplicates of an address string
RECURSIVE FilterDuplicates(_, _)
FilterDuplicates(aa, seen) ==
    IF Len(aa) = 0 THEN <<>>
    ELSE IF AddrString(aa[1]) \in seen THEN FilterDuplicates(Tail(aa), seen)
    ELSE <<aa[1]>> \o FilterDuplicates(Tail(aa), seen \cup {AddrString(aa[1])})

sHost == <<"h", "o", "s", "t", " ">>
sAndPort == <<" ", "a", "n", "d", " ", "p", "o", "r", "t", " ">>
sOr == <<" ", "o", "r", " ">>

BPFTerm(a) ==
    LET hp == SplitHostPort(AddrString(a))
    IN  sHost \o hp.host \o sAndPort \o hp.port

\* the packet-filter encoder's output for the connection list ff
EncodeBPF(ff) ==
    LET hosts == FilterDuplicates(HostsSrc(ff) \o HostsDst(ff), {})
    IN  Join([i \in 1..Len(hosts) |-> BPFTerm(hosts[i])], sOr) \o <<"\n">>

\* ---------------------------------------------------------------------------
\* State
\* ---------------------------------------------------------------------------

VARIABLES
    pc,        \* position of the call being followed
    \* Address Parser and Name Splitter calls
    node,      \* network kind / OpenFile.Node
    parts,     \* the address texts the name is written from (one or two)
    name,      \* OpenFile.Name
    parsed,    \* result of ParseNetAddr(node, name)
    split,     \* result of UnmarshalName
    \* one lsof line
    fields,    \* the column values the line is written from
    line,      \* the line
    unm,       \* result of UnmarshalLsofLine(line)
    \* decoding of a whole output
    decoder,   \* runtime.LsofDecoder: "lsof" or "netstat"
    lines,     \* the lines the output is written from
    raw,       \* the reader's content
    buf,       \* bytes the scanner has not read yet
    handed,    \* the lines handed to the per-line callback so far
    ll,        \* open files decoded
    derr,      \* error of the decode
    \* filter builder and lookup
    sel,       \* the selector s
    statOk,    \* outcome of os.Stat(s)
    app,       \* outcome of appName(path)
    pg,        \* outcome of pgrep
    expr,      \* the pattern built
    lsofOut,   \* outcome of the line source: its output lines and error
    trace,     \* the stages of OpenNetFiles run so far
    ff,        \* NetFiles returned
    err,       \* error returned
    \* packet-filter encoder
    conns,     \* the connection list given to Encode
    w          \* what Encode wrote

addrVars == <<node, parts, name, parsed, split>>
lineVars == <<fields, line, unm>>
scanVars == <<decoder, lines, raw, buf, handed, ll, derr>>
lookupVars == <<sel, statOk, app, pg, expr, lsofOut, trace, ff, err>>
encVars == <<conns, w>>
vars == <<pc, addrVars, lineVars, scanVars, lookupVars, encVars>>

NoParse == [addr |-> NoAddr, err |-> NoErr]
NoSplit == [src |-> NoAddr, dst |-> NoAddr, err |-> NoErr]
NoUnm == [ok |-> FALSE, file |-> NoFile, err |-> NoErr]
NotCalled == [called |-> FALSE, err |-> FALSE, out |-> <<>>]
NoOutput == [called |-> FALSE, err |-> FALSE, lines |-> <<>>]

AddrIdle ==
    node = <<>> /\ parts = <<>> /\ name = <<>> /\ parsed = NoParse /\ split = NoSplit
LineIdle == fields = <<>> /\ line = <<>> /\ unm = NoUnm
ScanIdle ==
    /\ decoder = "lsof" /\ lines = <<>> /\ raw = <<>> /\ buf = <<>>
    /\ handed = <<>> /\ ll = <<>> /\ derr = NoErr
LookupIdle ==
    /\ sel = <<>> /\ statOk = FALSE /\ app = NotCalled /\ pg = NotCalled
    /\ expr = <<>> /\ lsofOut = NoOutput /\ trace = <<>> /\ ff = <<>> /\ err = NoErr
EncIdle == conns = <<>> /\ w = <<>>

\* ---------------------------------------------------------------------------
\* Address Parser and Name Splitter: calls on kinds and address texts
\* ---------------------------------------------------------------------------

\* "TCP"
kTCP == <<"T", "C", "P">>
\* "tcp"
kTcpLower == <<"t", "c", "p">>
\* "UDP"
kUDP == <<"U", "D", "P">>
\* "udp"
kUdpLower == <<"u", "d", "p">>
\* "Tcp6"
kTcp6 == <<"T", "c", "p", "6">>
\* "udp4"
kUdp4 == <<"u", "d", "p", "4">>
\* "TCPv6"
kTCPv6 == <<"T", "C", "P", "v", "6">>
\* "udptcp"
kUdpTcp == <<"u", "d", "p", "t", "c", "p">>
\* "SCTP"
kSCTP == <<"S", "C", "T", "P">>
\* ""
kEmpty == <<>>

Kinds == {kTCP, kTcpLower, kUDP, kUdpLower, kTcp6, kUdp4, kTCPv6, kUdpTcp, kSCTP, kEmpty}

\* "10.0.0.1:80"
aV4 == <<"1", "0", ".", "0", ".", "0", ".", "1", ":", "8", "0">>
\* "10.0.0.61:7"
aV4b == <<"1", "0", ".", "0", ".", "0", ".", "6", "1", ":", "7">>
\* "[::1]:60051"
aV6 == <<"[", ":", ":", "1", "]", ":", "6", "0", "0", "5", "1">>
\* "*:80"
aAnyHost == <<"*", ":", "8", "0">>
\* "10.0.0.1"
aNoPort == <<"1", "0", ".", "0", ".", "0", ".", "1">>
\* "::1:80"
aBareV6 == <<":", ":", "1", ":", "8", "0">>
\* "*:*"
aAnyAny == <<"*", ":", "*">>

\* address texts in the numeric form lsof -n -P prints
NumericAddrs == {aV4, aV4b, aV6}
AddrTexts == NumericAddrs \cup {aAnyHost, aNoPort, aBareV6, aAnyAny}

\* a name is "src" or "src->dst"
WriteName(pp) == IF Len(pp) = 1 THEN pp[1] ELSE pp[1] \o sArrow \o pp[2]

InitAddr ==
    /\ pc = "start"
    /\ node \in Kinds
    /\ parts \in {<<a>> : a \in AddrTexts} \cup (AddrTexts \X AddrTexts)
    /\ name = WriteName(parts)
    /\ parsed = NoParse /\ split = NoSplit
    /\ LineIdle /\ ScanIdle /\ LookupIdle /\ EncIdle

CallParseNetAddr ==
    /\ pc = "start"
    /\ parsed' = ParseNetAddr(node, name)
    /\ pc' = "parsed"
    /\ UNCHANGED <<node, parts, name, split, lineVars, scanVars, lookupVars, encVars>>

CallUnmarshalName ==
    /\ pc = "start"
    /\ split' = UnmarshalName([NoFile EXCEPT !.Node = node, !.Name = name])
    /\ pc' = "split"
    /\ UNCHANGED <<node, parts, name, parsed, lineVars, scanVars, lookupVars, encVars>>

NextAddr == CallParseNetAddr \/ CallUnmarshalName

SpecAddr == InitAddr /\ [][NextAddr]_vars

NetworkErrors == {"unsupported network", "unknown network"}

\* the protocol a kind is classified as: "tcp" first, then "udp", else none
Classified(k) ==
    IF Contains(ToLower(k), sTCP) THEN sTCP
    ELSE IF Contains(ToLower(k), sUDP) THEN sUDP
    ELSE <<>>

\* C4: ParseNetAddr classifies the kind by case-insensitive substring match: a
\* kind containing "tcp" (whatever else it contains) is resolved as a TCP
\* address, otherwise one containing "udp" as a UDP address, a resolved address
\* has network "tcp" or "udp", and the call fails for its network kind exactly
\* when the kind contains neither, then with the unsupported-network error
\* naming the kind and without an address.
C4_Classification ==
    pc = "parsed" =>
        /\ (Classified(node) # <<>>) => parsed.err.kind \notin NetworkErrors
        /\ (Classified(node) # <<>> /\ parsed.err = NoErr) =>
               AddrNetwork(parsed.addr) = Classified(node)
        /\ (Classified(node) = <<>>) =>
               /\ parsed.err = Err("unsupported network", ToLower(node))
               /\ parsed.addr = NoAddr

SpotifyFields ==
    << <<"S", "p", "o", "t", "i", "f", "y">>,
       <<"1", "1", "7", "7", "8">>,
       <<"d", "a", "n", "i", "e", "l", "m", "o", "r", "a", "n", "d", "i", "n", "i">>,
       <<"1", "2", "8", "u">>,
       <<"I", "P", "v", "4">>,
       <<"0", "x", "2", "5", "c", "5", "b", "f", "0", "9", "9", "9", "3", "e", "f", "f", "0", "3">>,
       <<"0", "t", "0">>,
       <<"T", "C", "P">>,
       <<"1", "9", "2", ".", "1", "6", "8", ".", "0", ".", "6", "1", ":", "5", "1", "2", "9", "1", "-", ">", "3", "5", ".", "1", "8", "6", ".", "2", "2", "4", ".", "4", "7", ":", "h", "t", "t", "p", "s">>,
       <<"(", "E", "S", "T", "A", "B", "L", "I", "S", "H", "E", "D", ")">> >>

\* the columns of the UDP line of lsofExample, and a STATE for the prefixes
PostgresFields ==
    << <<"p", "o", "s", "t", "g", "r", "e", "s">>,
       <<"6", "7", "6">>,
       <<"d", "a", "n", "i", "e", "l", "m", "o", "r", "a", "n", "d", "i", "n", "i">>,
       <<"1", "0", "u">>,
       <<"I", "P", "v", "6">>,
       <<"0", "x", "2", "5", "c", "5", "b", "f", "0", "9", "9", "7", "c", "a", "8", "8", "e", "3">>,
       <<"0", "t", "0">>,
       <<"U", "D", "P">>,
       <<"[", ":", ":", "1", "]", ":", "6", "0", "0", "5", "1", "-", ">", "[", ":", ":", "1", "]", ":", "6", "0", "0", "5", "1">>,
       <<"(", "x", ")">> >>

\* the first n columns of a line
Prefix(fs, n) == SubStr(fs, 1, n)

Spaces(n) == [i \in 1..n |-> " "]

\* widths of the gap before column i + 1
Gap(style, i) ==
    IF style = 1 THEN 1 ELSE IF style = 2 THEN 2 ELSE (i % 3) + 1

\* the line that shows the columns fs, `lead` spaces before and `trail` after
RECURSIVE WriteColumns(_, _, _)
WriteColumns(fs, style, i) ==
    IF i > Len(fs) THEN <<>>
    ELSE fs[i] \o (IF i < Len(fs) THEN Spaces(Gap(style, i)) ELSE <<>>)
         \o WriteColumns(fs, style, i + 1)

WriteLine(fs, style, lead, trail) ==
    Spaces(lead) \o WriteColumns(fs, style, 1) \o Spaces(trail)

\* the lines of lsofExample
LsofLine1 ==
    <<"D", "r", "o", "p", "b", "o", "x", " ", " ", " ", " ", " ", "6", "1", "4", " ", "d", "a",
      "n", "i", "e", "l", "m", "o", "r", "a", "n", "d", "i", "n", "i", " ", " ", "2", "3", "6",
      "u", " ", " ", "I", "P", "v", "4", " ", "0", "x", "2", "5", "c", "5", "b", "f", "0", "9",
      "a", "4", "1", "6", "1", "5", "8", "3", " ", " ", " ", " ", " ", " ", "0", "t", "0", " ",
      " ", "T", "C", "P", " ", "1", "9", "2", ".", "1", "6", "8", ".", "0", ".", "6", "1", ":",
      "5", "8", "1", "2", "2", "-", ">", "1", "6", "2", ".", "1", "2", "5", ".", "6", "6", ".",
      "7", ":", "h", "t", "t", "p", "s", " ", "(", "E", "S", "T", "A", "B", "L", "I", "S", "H",
      "E", "D", ")">>

LsofLine2 ==
    <<"D", "r", "o", "p", "b", "o", "x", " ", " ", " ", " ", " ", "6", "1", "4", " ", "d", "a",
      "n", "i", "e", "l", "m", "o", "r", "a", "n", "d", "i", "n", "i", " ", " ", "2", "4", "7",
      "u", " ", " ", "I", "P", "v", "4", " ", "0", "x", "2", "5", "c", "5", "b", "f", "0", "9",
      "a", "3", "9", "3", "d", "5", "8", "3", " ", " ", " ", " ", " ", " ", "0", "t", "0", " ",
      " ", "T", "C", "P", " ", "1", "9", "2", ".", "1", "6", "8", ".", "0", ".", "6", "1", ":",
      "5", "8", "2", "8", "2", "-", ">", "1", "6", "2", ".", "1", "2", "5", ".", "1", "8", ".",
      "1", "3", "3", ":", "h", "t", "t", "p", "s", " ", "(", "E", "S", "T", "A", "B", "L", "I",
      "S", "H", "E", "D", ")">>

LsofLine3 ==
    <<"p", "o", "s", "t", "g", "r", "e", "s", " ", " ", " ", " ", "6", "7", "6", " ", "d", "a",
      "n", "i", "e", "l", "m", "o", "r", "a", "n", "d", "i", "n", "i", " ", " ", " ", "1", "0",
      "u", " ", " ", "I", "P", "v", "6", " ", "0", "x", "2", "5", "c", "5", "b", "f", "0", "9",
      "9", "7", "c", "a", "8", "8", "e", "3", " ", " ", " ", " ", " ", " ", "0", "t", "0", " ",
      " ", "U", "D", "P", " ", "[", ":", ":", "1", "]", ":", "6", "0", "0", "5", "1", "-", ">",
      "[", ":", ":", "1", "]", ":", "6", "0", "0", "5", "1">>

\* a line with too few columns
LsofShort ==
    <<"D", "r", "o", "p", "b", "o", "x", " ", " ", " ", " ", " ", "6", "1", "4", " ", "d", "a",
      "n", "i", "e", "l", "m", "o", "r", "a", "n", "d", "i", "n", "i">>

LsofPool == {LsofLine1, LsofLine3, LsofShort, <<>>}

lsofExample == <<LsofLine1, LsofLine2, LsofLine3>>

\* number of lines of a generated output
MaxLines == 3

\* the bytes of an output: each line with its terminator, the last line
\* possibly without one
RECURSIVE WriteLines(_, _, _)
WriteLines(lns, term, lastTerm) ==
    IF Len(lns) = 0 THEN <<>>
    ELSE lns[1] \o (IF Len(lns) > 1 \/ lastTerm \/ lns[1] = <<>> THEN term ELSE <<>>)
         \o WriteLines(Tail(lns), term, lastTerm)

Terminators == {<<"\n">>, <<"\r", "\n">>}

StartScan(dec, lns, term, lastTerm) ==
    /\ pc = "scan"
    /\ decoder = dec
    /\ lines = lns
    /\ raw = WriteLines(lns, term, lastTerm)
    /\ buf = raw
    /\ handed = <<>> /\ ll = <<>> /\ derr = NoErr

InitLsof ==
    /\ \/ /\ pc = "line"
          /\ \E base \in {SpotifyFields, PostgresFields}, n \in 0..10,
                style \in 1..3, lead \in {0, 2}, trail \in {0, 1} :
                /\ fields = Prefix(base, n)
                /\ line = WriteLine(fields, style, lead, trail)
          /\ unm = NoUnm
          /\ ScanIdle
       \/ /\ \E n \in 0..MaxLines : \E lns \in [1..n -> LsofPool] :
                \E term \in Terminators, lastTerm \in BOOLEAN :
                    StartScan("lsof", lns, term, lastTerm)
          /\ LineIdle
       \/ /\ StartScan("lsof", lsofExample, <<"\n">>, TRUE)
          /\ LineIdle
    /\ AddrIdle /\ LookupIdle /\ EncIdle

CallUnmarshalLsofLine ==
    /\ pc = "line"
    /\ unm' = UnmarshalLsofLine(line)
    /\ pc' = "unmarshaled"
    /\ UNCHANGED <<fields, line, addrVars, scanVars, lookupVars, encVars>>

\* the per-line callback of the decoder in use, on the open files so far:
\* the open files after it, and its error
DecodeLine(dec, files, text) ==
    IF dec = "lsof"
    THEN LET u == UnmarshalLsofLine(text)
         IN  IF u.ok THEN [files |-> Append(files, u.file), err |-> NoErr]
             ELSE [files |-> files, err |-> u.err]
    ELSE LET u == UnmarshalNetstatLine(text)
         IN  IF IsAnnotation(text)
             THEN [files |-> IF Len(files) > 0 /\ files[Len(files)].Command = <<>>
                             THEN [files EXCEPT ![Len(files)].Command = AnnotationName(text)]
                             ELSE files,
                   err |-> NoErr]
             ELSE IF u.ok THEN [files |-> Append(files, u.file), err |-> NoErr]
             ELSE [files |-> files, err |-> NoErr]

\* the loop of ScanLines going on after the callback's error
ScanLineNoStop ==
    /\ pc = "scan"
    /\ Len(buf) > 0
    /\ LET n == ScannerNext(buf)
           text == ScanLinesText(n.tok)
           r == DecodeLine(decoder, ll, text)
       IN  /\ buf' = n.rest
           /\ handed' = Append(handed, text)
           /\ ll' = r.files
           /\ derr' = (IF derr # NoErr THEN derr ELSE r.err)
           /\ pc' = "scan"
    /\ UNCHANGED <<decoder, lines, raw, addrVars, lineVars, lookupVars, encVars>>

\* one turn of the loop of ScanLines: the scanner's next line goes to the
\* callback; its error ends the scan, and the decode returns no open files
ScanLine ==
    /\ pc = "scan"
    /\ Len(buf) > 0
    /\ LET n == ScannerNext(buf)
           text == ScanLinesText(n.tok)
           r == DecodeLine(decoder, ll, text)
       IN  /\ buf' = n.rest
           /\ handed' = Append(handed, text)
           /\ IF r.err # NoErr
              THEN ll' = <<>> /\ derr' = r.err /\ pc' = "decoded"
              ELSE ll' = r.files /\ derr' = NoErr /\ pc' = "scan"
    /\ UNCHANGED <<decoder, lines, raw, addrVars, lineVars, lookupVars, encVars>>

\* the scanner is at the end of the input: ScanLines returns scanner.Err()
ScanEnd ==
    /\ pc = "scan"
    /\ Len(buf) = 0
    /\ pc' = "decoded"
    /\ UNCHANGED <<addrVars, lineVars, scanVars, lookupVars, encVars>>

NextLsof == CallUnmarshalLsofLine \/ ScanLine \/ ScanEnd

SpecLsof == InitLsof /\ [][NextLsof]_vars

\* C5: decoding one lsof line maps the columns by position after dropping the
\* empty fields of repeated whitespace: with the mandatory columns present,
\* Command, Pid, User, Fd, Type, Device, Node and Name are the 1st, 2nd, 3rd,
\* 4th, 5th, 6th, 8th and 9th column, State is the trailing column when there
\* is one and empty otherwise; with fewer columns the decode fails with the
\* chunk error and yields no record.
C5_Positional ==
    pc = "unmarshaled" =>
        IF Len(fields) >= 9
        THEN /\ unm.ok /\ unm.err = NoErr
             /\ unm.file.Command = fields[1]
             /\ unm.file.Pid = fields[2]
             /\ unm.file.User = fields[3]
             /\ unm.file.Fd = fields[4]
             /\ unm.file.Type = fields[5]
             /\ unm.file.Device = fields[6]
             /\ unm.file.Node = fields[8]
             /\ unm.file.Name = fields[9]
             /\ unm.file.State = (IF Len(fields) >= 10 THEN fields[10] ELSE <<>>)
        ELSE /\ ~unm.ok
             /\ unm.err.kind = "unable to chunk line"
             /\ unm.file = NoFile

\* the line of TestUnmarshalLsofLine, written with uneven gaps, is decoded
C5_Witness ==
    /\ pc = "unmarshaled"
    /\ fields = SpotifyFields
    /\ line # WriteLine(fields, 1, 0, 0)
    /\ unm.ok
    /\ unm.file.State = SpotifyFields[10]

\* the index of the first line the lsof decoder rejects, 0 when there is none
FirstBadLine(lns) ==
    LET bad == {i \in 1..Len(lns) : ~UnmarshalLsofLine(lns[i]).ok}
    IN  IF bad = {} THEN 0 ELSE CHOOSE i \in bad : \A j \in bad : i <= j

\* C6: decoding a whole lsof output is fail-fast. The lines go to the per-line
\* decoder one at a time, in stream order, without their terminators; when
\* every line decodes there is one record per line, in line order; when a line
\* fails the decode returns that first error, no later line is handed to the
\* decoder, and no records are returned.
C6_FailFast ==
    (decoder = "lsof" /\ pc \in {"scan", "decoded"}) =>
        /\ Len(handed) <= Len(lines)
        /\ handed = SubStr(lines, 1, Len(handed))
        /\ pc = "decoded" =>
               LET k == FirstBadLine(lines)
               IN  IF k = 0
                   THEN /\ derr = NoErr
                        /\ handed = lines
                        /\ Len(ll) = Len(lines)
                        /\ \A i \in 1..Len(lines) : ll[i] = UnmarshalLsofLine(lines[i]).file
                   ELSE /\ derr = UnmarshalLsofLine(lines[k]).err
                        /\ Len(handed) = k
                        /\ ll = <<>>

\* a three-line output whose second line fails: the first line was decoded,
\* the third never handed over
C6_Witness ==
    /\ pc = "decoded" /\ decoder = "lsof"
    /\ Len(lines) = 3
    /\ UnmarshalLsofLine(lines[1]).ok
    /\ UnmarshalLsofLine(lines[3]).ok
    /\ derr # NoErr
    /\ Len(handed) = 2
    /\ ll = <<>>

\* ---------------------------------------------------------------------------
\* netstat decoder
\* ---------------------------------------------------------------------------

\* the lines of netstatExample
nsBlank == <<>>
nsBanner ==
    <<"A", "c", "t", "i", "v", "e", " ", "C", "o", "n", "n", "e", "c", "t", "i", "o", "n", "s">>
nsHeader ==
    <<" ", " ", "P", "r", "o", "t", "o", " ", " ", "L", "o", "c", "a", "l", " ", "A", "d", "d",
      "r", "e", "s", "s", " ", " ", " ", " ", " ", " ", " ", " ", " ", " ", "F", "o", "r", "e",
      "i", "g", "n", " ", "A", "d", "d", "r", "e", "s", "s", " ", " ", " ", " ", " ", " ", " ",
      " ", "S", "t", "a", "t", "e", " ", " ", " ", " ", " ", " ", " ", " ", " ", " ", " ", "P",
      "I", "D">>

nsTcp135 ==
    <<" ", " ", "T", "C", "P", " ", " ", " ", " ", "0", ".", "0", ".", "0", ".", "0", ":", "1",
      "3", "5", " ", " ", " ", " ", " ", " ", " ", " ", " ", " ", " ", " ", "0", ".", "0", ".",
      "0", ".", "0", ":", "0", " ", " ", " ", " ", " ", " ", " ", " ", " ", " ", " ", " ", " ",
      " ", "L", "I", "S", "T", "E", "N", "I", "N", "G", " ", " ", " ", " ", " ", " ", " ", "7",
      "4", "8">>

nsService == <<" ", " ", "R", "p", "c", "S", "s">>
nsOwner == <<" ", "[", "s", "v", "c", "h", "o", "s", "t", ".", "e", "x", "e", "]">>
nsTcp445 ==
    <<" ", " ", "T", "C", "P", " ", " ", " ", " ", "0", ".", "0", ".", "0", ".", "0", ":", "4",
      "4", "5", " ", " ", " ", " ", " ", " ", " ", " ", " ", " ", " ", " ", "0", ".", "0", ".",
      "0", ".", "0", ":", "0", " ", " ", " ", " ", " ", " ", " ", " ", " ", " ", " ", " ", " ",
      " ", "L", "I", "S", "T", "E", "N", "I", "N", "G", " ", " ", " ", " ", " ", " ", " ", "4">>

nsNotice ==
    <<" ", "C", "a", "n", " ", "n", "o", "t", " ", "o", "b", "t", "a", "i", "n", " ", "o", "w",
      "n", "e", "r", "s", "h", "i", "p", " ", "i", "n", "f", "o", "r", "m", "a", "t", "i", "o",
      "n">>

nsTcp5357 ==
    <<" ", " ", "T", "C", "P", " ", " ", " ", " ", "0", ".", "0", ".", "0", ".", "0", ":", "5",
      "3", "5", "7", " ", " ", " ", " ", " ", " ", " ", " ", " ", " ", " ", "0", ".", "0", ".",
      "0", ".", "0", ":", "0", " ", " ", " ", " ", " ", " ", " ", " ", " ", " ", " ", " ", " ",
      " ", "L", "I", "S", "T", "E", "N", "I", "N", "G", " ", " ", " ", " ", " ", " ", " ", "4">>

nsUdp ==
    <<" ", " ", "U", "D", "P", " ", " ", " ", " ", "[", ":", ":", "1", "]", ":", "6", "2", "2",
      "6", "1", " ", " ", " ", " ", " ", " ", " ", " ", " ", " ", " ", " ", "*", ":", "*", " ",
      " ", " ", " ", " ", " ", " ", " ", " ", " ", " ", " ", " ", " ", " ", " ", " ", " ", " ",
      " ", " ", " ", " ", " ", " ", " ", " ", " ", " ", " ", " ", " ", " ", " ", " ", " ", "1",
      "0", "3", "6">>


netstatExample ==
    << nsBlank, nsBanner, nsBlank, nsHeader, nsTcp135, nsService, nsOwner, nsTcp445,
       nsNotice, nsTcp5357, nsOwner, nsUdp >>

\* the genuine data rows, and the lines that are noise
NetstatRows == {nsTcp135, nsTcp445, nsTcp5357, nsUdp}
NetstatNoise == {nsBlank, nsBanner, nsHeader, nsService, nsOwner, nsNotice}

\* what a generated netstat output is made of
NetstatPool == {nsTcp135, nsUdp} \cup NetstatNoise

\* number of lines of a generated netstat output
MaxNetstatLines == 2

InitNetstat ==
    /\ \/ \E n \in 0..MaxNetstatLines : \E lns \in [1..n -> NetstatPool] :
              \E term \in Terminators, lastTerm \in BOOLEAN :
                  StartScan("netstat", lns, term, lastTerm)
       \/ \E term \in Terminators : StartScan("netstat", netstatExample, term, TRUE)
    /\ AddrIdle /\ LineIdle /\ LookupIdle /\ EncIdle

NextNetstat == ScanLine \/ ScanEnd

SpecNetstat == InitNetstat /\ [][NextNetstat]_vars

\* the data rows among lns, in order
RECURSIVE RowsOf(_)
RowsOf(lns) ==
    IF Len(lns) = 0 THEN <<>>
    ELSE (IF lns[1] \in NetstatRows THEN <<lns[1]>> ELSE <<>>) \o RowsOf(Tail(lns))

\* the columns of a data row
Columns(row) == DropEmpty(Split(row, <<" ">>))

\* C7: decoding netstat output yields one record per genuine data row, in row
\* order, whatever noise is interleaved: blank lines, the banner, the column
\* header, owner annotations, service-name lines and the ownership notice give
\* no record and no error; a UDP row without STATE gives a record with an empty
\* State and the PID of its last column; netstatExample gives 4 records.
C7_Netstat ==
    (decoder = "netstat" /\ pc = "decoded") =>
        LET rows == RowsOf(lines)
        IN  /\ derr = NoErr
            /\ handed = lines
            /\ Len(ll) = Len(rows)
            /\ \A i \in 1..Len(rows) :
                   /\ ll[i].Node = Columns(rows[i])[1]
                   /\ ll[i].Pid = Columns(rows[i])[Len(Columns(rows[i]))]
                   /\ ll[i].State = (IF rows[i] = nsUdp THEN <<>> ELSE Columns(rows[i])[4])
            /\ lines = netstatExample => Len(ll) = 4

\* netstatExample has been decoded: 4 records, the last one the UDP row
C7_Witness ==
    /\ decoder = "netstat" /\ pc = "decoded"
    /\ lines = netstatExample
    /\ Len(ll) = 4 /\ derr = NoErr
    /\ ll[4].State = <<>>
    /\ ll[4].Pid = <<"1", "0", "3", "6">>

\* ---------------------------------------------------------------------------
\* Net-file lookup: OpenNetFiles
\* ---------------------------------------------------------------------------

\* "Db"
selName == <<"D", "b">>
\* "y"
selOther == <<"y">>
\* "("
selBadRgx == <<"(">>
\* "/A.app"
selApp == <<"/", "A", ".", "a", "p", "p">>
\* "/A.app/"
selAppSlash == <<"/", "A", ".", "a", "p", "p", "/">>
\* "/t"
selDir == <<"/", "t">>

Selectors == {selName, selOther, selBadRgx, selApp, selAppSlash, selDir}

\* what pgrep can print: nothing, or one identifier per line
pgNone == <<>>
pgOne == <<"6", "1", "\n">>
pgTwo == <<"6", "1", "\n", "7", "\n">>

PgrepOutputs == {pgNone, pgOne, pgTwo}

\* a connection of process 61
\* "Db 61 u 9u IPv4 0x1 0t0 TCP 10.0.0.1:80->10.0.0.1:80 (E)"
loTarget ==
    <<"D", "b", " ", "6", "1", " ", "u", " ", "9", "u", " ", "I", "P", "v", "4", " ", "0", "x",
      "1", " ", "0", "t", "0", " ", "T", "C", "P", " ", "1", "0", ".", "0", ".", "0", ".", "1",
      ":", "8", "0", "-", ">", "1", "0", ".", "0", ".", "0", ".", "1", ":", "8", "0", " ", "(",
      "E", ")">>
\* process 614: its PID contains 61
\* "pg 614 u 9u IPv6 0x2 0t0 UDP [::1]:60051->[::1]:60051"
loPidSub ==
    <<"p", "g", " ", "6", "1", "4", " ", "u", " ", "9", "u", " ", "I", "P", "v", "6", " ", "0",
      "x", "2", " ", "0", "t", "0", " ", "U", "D", "P", " ", "[", ":", ":", "1", "]", ":", "6",
      "0", "0", "5", "1", "-", ">", "[", ":", ":", "1", "]", ":", "6", "0", "0", "5", "1">>
\* process 5: its address contains 61 and its port is 7
\* "x 5 u 3u IPv4 0x3 0t0 TCP 10.0.0.61:7 (L)"
loPortSub ==
    <<"x", " ", "5", " ", "u", " ", "3", "u", " ", "I", "P", "v", "4", " ", "0", "x", "3", " ",
      "0", "t", "0", " ", "T", "C", "P", " ", "1", "0", ".", "0", ".", "0", ".", "6", "1", ":",
      "7", " ", "(", "L", ")">>
\* process 5: its device contains 7; a listening socket on any host
\* "y 5 u 3u IPv4 0x7 0t0 TCP *:80 (L)"
loDevSub ==
    <<"y", " ", "5", " ", "u", " ", "3", "u", " ", "I", "P", "v", "4", " ", "0", "x", "7", " ",
      "0", "t", "0", " ", "T", "C", "P", " ", "*", ":", "8", "0", " ", "(", "L", ")">>
\* a line of process 61 with too few columns
\* "Db 61"
loShort == <<"D", "b", " ", "6", "1">>
\* process 5, nothing of 61 or 7 in the line
\* "z 5 u 3u IPv4 0x3 0t0 UDP 10.0.0.1:80"
loNone ==
    <<"z", " ", "5", " ", "u", " ", "3", "u", " ", "I", "P", "v", "4", " ", "0", "x", "3", " ",
      "0", "t", "0", " ", "U", "D", "P", " ", "1", "0", ".", "0", ".", "0", ".", "1", ":", "8",
      "0">>

LsofOutPool == {loTarget, loPidSub, loPortSub, loDevSub, loShort, loNone}

\* number of lines the line source prints
MaxOut == 2

InitLookup ==
    /\ pc = "start"
    /\ sel \in Selectors
    /\ statOk = FALSE /\ app = NotCalled /\ pg = NotCalled
    /\ expr = <<>> /\ lsofOut = NoOutput /\ trace = <<>> /\ ff = <<>> /\ err = NoErr
    /\ AddrIdle /\ LineIdle /\ ScanIdle /\ EncIdle

\* OpenNetFiles, lines 48-52: buildRgx(s). The filter builder calls os.Stat,
\* then appName and pgrep only when it gets that far; the pattern is compiled
BuildRgx ==
    /\ pc = "start"
    /\ \E so \in BOOLEAN, ae \in BOOLEAN, pe \in BOOLEAN, po \in PgrepOutputs :
           LET isApp == so /\ HasSuffix(TrimRight(sel, "/"), sApp)
               a == IF isApp THEN [called |-> TRUE, err |-> ae, out |-> <<>>]
                    ELSE NotCalled
               p == IF isApp /\ ~ae
                    THEN [called |-> TRUE, err |-> pe, out |-> IF pe THEN <<>> ELSE po]
                    ELSE NotCalled
           IN  /\ isApp \/ ~ae
               /\ (isApp /\ ~ae) \/ (~pe /\ po = pgNone)
               /\ pe => po = pgNone
               /\ statOk' = so /\ app' = a /\ pg' = p
               /\ expr' = prepareNFExpr(sel, so, a, p)
    /\ trace' = Append(trace, "build")
    /\ IF RegexpCompileErr(expr')
       THEN /\ err' = Err("error parsing regexp", expr')
            /\ ff' = <<>>
            /\ pc' = "done"
       ELSE /\ err' = NoErr
            /\ ff' = ff
            /\ pc' = "built"
    /\ UNCHANGED <<sel, lsofOut, addrVars, lineVars, scanVars, encVars>>

\* openNetFiles, lines 107-121: the line source piped through the filter; its
\* failure is returned, otherwise the decoder is given the filtered output
RunLsof ==
    /\ pc = "built"
    /\ \E ce \in BOOLEAN, n \in 0..MaxOut : \E lns \in [1..n -> LsofOutPool] :
           /\ ce => n = 0
           /\ lsofOut' = [called |-> TRUE, err |-> ce, lines |-> lns]
           /\ IF ce
              THEN /\ err' = Err("exit status", <<>>)
                   /\ ff' = <<>>
                   /\ trace' = Append(trace, "run")
                   /\ pc' = "done"
                   /\ UNCHANGED scanVars
              ELSE /\ err' = NoErr
                   /\ ff' = ff
                   /\ trace' = trace \o <<"run", "decode">>
                   /\ pc' = "scan"
                   /\ decoder' = "lsof"
                   /\ raw' = PipeFilter(expr, WriteLines(lns, <<"\n">>, TRUE))
                   /\ buf' = raw'
                   /\ handed' = <<>> /\ ll' = <<>> /\ derr' = NoErr
                   /\ UNCHANGED lines
    /\ UNCHANGED <<sel, statOk, app, pg, expr, addrVars, lineVars, encVars>>

\* OpenNetFiles without the check of the error of openNetFiles
ReturnNetFilesUnchecked ==
    /\ pc = "decoded"
    /\ err' = NoErr
    /\ ff' = [i \in 1..Len(ll) |-> ToNetFile(ll[i])]
    /\ trace' = Append(trace, "convert")
    /\ pc' = "done"
    /\ UNCHANGED <<sel, statOk, app, pg, expr, lsofOut, addrVars, lineVars, scanVars, encVars>>

\* OpenNetFiles, lines 54-69: the decode's error is returned with an empty
\* list; otherwise every open file is mapped to a NetFile
ReturnNetFiles ==
    /\ pc = "decoded"
    /\ IF derr # NoErr
       THEN /\ err' = derr
            /\ ff' = <<>>
            /\ trace' = trace
       ELSE /\ err' = NoErr
            /\ ff' = [i \in 1..Len(ll) |-> ToNetFile(ll[i])]
            /\ trace' = Append(trace, "convert")
    /\ pc' = "done"
    /\ UNCHANGED <<sel, statOk, app, pg, expr, lsofOut, addrVars, lineVars, scanVars, encVars>>

NextLookup == BuildRgx \/ RunLsof \/ ScanLine \/ ScanEnd \/ ReturnNetFiles

SpecLookup == InitLookup /\ [][NextLookup]_vars

\* the lines of the line source's output that match the pattern, in order
RECURSIVE Matching(_, _)
Matching(pattern, lns) ==
    IF Len(lns) = 0 THEN <<>>
    ELSE (IF RegexpMatch(pattern, lns[1]) THEN <<lns[1]>> ELSE <<>>)
         \o Matching(pattern, Tail(lns))

\* C1: OpenNetFiles is all-or-nothing. Whatever the stages do, it returns
\* either a nil error with one NetFile per decoded open file, or the error of
\* the first failing stage with an empty list; no stage runs after a failed
\* one, and no list comes together with an error.
C1_AllOrNothing ==
    pc = "done" =>
        IF RegexpCompileErr(expr)
        THEN /\ err = Err("error parsing regexp", expr)
             /\ trace = <<"build">>
             /\ ~lsofOut.called /\ handed = <<>>
             /\ ff = <<>>
        ELSE IF lsofOut.err
        THEN /\ err = Err("exit status", <<>>)
             /\ trace = <<"build", "run">>
             /\ handed = <<>>
             /\ ff = <<>>
        ELSE LET kept == Matching(expr, lsofOut.lines)
                 k == FirstBadLine(kept)
             IN  IF k # 0
                 THEN /\ err = UnmarshalLsofLine(kept[k]).err
                      /\ trace = <<"build", "run", "decode">>
                      /\ Len(handed) = k
                      /\ ff = <<>>
                 ELSE /\ err = NoErr
                      /\ trace = <<"build", "run", "decode", "convert">>
                      /\ Len(ll) = Len(kept)
                      /\ Len(ff) = Len(ll)
                      /\ \A i \in 1..Len(ll) : ff[i].Command = ll[i].Command

\* the decode failed at the second of two matching lines: the error is
\* returned with an empty list although the first line had been decoded
C1_Witness ==
    /\ pc = "done"
    /\ trace = <<"build", "run", "decode">>
    /\ Len(handed) = 2
    /\ UnmarshalLsofLine(handed[1]).ok
    /\ err.kind = "unable to chunk line"
    /\ ff = <<>>

\* C2: malformed or unparseable addresses are a decode error: when the name of
\* a decoded open file holds an address that cannot be parsed (or its node is
\* neither tcp nor udp), the lookup returns an error and no NetFile with an
\* unset address.
C2_MalformedIsError ==
    (pc = "done" /\ \E i \in 1..Len(ll) : UnmarshalName(ll[i]).err # NoErr) =>
        /\ err # NoErr
        /\ \A i \in 1..Len(ff) : ff[i].Src.set

\* the identifiers the process lookup reported for a bundle selector
Identifiers ==
    IF statOk /\ HasSuffix(TrimRight(sel, "/"), sApp)
       /\ app.called /\ ~app.err /\ pg.called /\ ~pg.err
    THEN DropEmpty(Split(pg.out, <<"\n">>))
    ELSE <<>>

\* C3: the filter builder falls back to the unmodified selector in every
\* failure case (not a path, no bundle suffix, metadata missing or malformed,
\* no matching identifiers: a failed process lookup or one that succeeds with
\* empty output); only with at least one identifier is the pattern
\* pid1|pid2|... in the order reported.
C3_Fallback ==
    pc # "start" =>
        expr = (IF Len(Identifiers) = 0 THEN sel ELSE Join(Identifiers, <<"|">>))

\* whether some identifier occurs somewhere in the line
HasIdentifier(ln) == \E i \in 1..Len(Identifiers) : Contains(ln, Identifiers[i])

RECURSIVE WithIdentifier(_)
WithIdentifier(lns) ==
    IF Len(lns) = 0 THEN <<>>
    ELSE (IF HasIdentifier(lns[1]) THEN <<lns[1]>> ELSE <<>>) \o WithIdentifier(Tail(lns))

\* C10 as stated: for a bundle resolved to pid1..pidN, every connection
\* returned comes from a line whose PID column is one of pid1..pidN.
C10_PidFieldOnly ==
    (pc = "done" /\ err = NoErr /\ Len(Identifiers) > 0) =>
        \A i \in 1..Len(ll) : \E j \in 1..Len(Identifiers) : ll[i].Pid = Identifiers[j]

\* C10, amended: for a bundle resolved to pid1..pidN the pattern pid1|pid2|...
\* is built before the line source runs, the prefilter keeps exactly the lines
\* in which some identifier occurs anywhere (PID, port, address, device, ...),
\* in their order, and the connections returned are those of the kept lines.
C10_SubstringSelection ==
    (pc # "start" /\ Len(Identifiers) > 0) =>
        /\ expr = Join(Identifiers, <<"|">>)
        /\ trace[1] = "build"
        /\ (lsofOut.called /\ ~lsofOut.err) =>
               raw = WriteLines(WithIdentifier(lsofOut.lines), <<"\n">>, TRUE)
        /\ (pc = "done" /\ err = NoErr) =>
               LET kept == WithIdentifier(lsofOut.lines)
               IN  /\ Len(ff) = Len(kept)
                   /\ \A i \in 1..Len(kept) :
                          /\ ll[i] = UnmarshalLsofLine(kept[i]).file
                          /\ ff[i] = ToNetFile(ll[i])

\* the bundle resolved to 61 and 7; the output had a line of process 614 and a
\* line without any identifier: the first is returned, the second is not
C10_Witness ==
    /\ pc = "done" /\ err = NoErr
    /\ Identifiers = << <<"6", "1">>, <<"7">> >>
    /\ lsofOut.lines = <<loPidSub, loNone>>
    /\ Len(ff) = 1
    /\ ff[1].Command = <<"p", "g">>

\* ---------------------------------------------------------------------------
\* Packet-filter encoder
\* ---------------------------------------------------------------------------

\* "192.168.0.61"
ip192 == <<"1", "9", "2", ".", "1", "6", "8", ".", "0", ".", "6", "1">>
\* "::1"
ipLoop6 == <<":", ":", "1">>
\* "10.0.0.1"
ip10 == <<"1", "0", ".", "0", ".", "0", ".", "1">>

TypedAddr(n, ip, port) == [set |-> TRUE, net |-> n, ip |-> ip, port |-> port]

\* the addresses connections are made of
EncAddrs == { TypedAddr(sTCP, ip192, 54104), TypedAddr(sTCP, ipLoop6, 60051),
              TypedAddr(sUDP, ip10, 80) }

EncFiles == { [Command |-> <<"c">>, Src |-> a, Dst |-> b] : a \in EncAddrs, b \in EncAddrs }

\* number of connections of a list given to the encoder
MaxConns == 2

InitEnc ==
    /\ pc = "encode"
    /\ \E n \in 0..MaxConns : conns \in [1..n -> EncFiles]
    /\ w = <<>>
    /\ AddrIdle /\ LineIdle /\ ScanIdle /\ LookupIdle

CallEncodeBPF ==
    /\ pc = "encode"
    /\ w' = EncodeBPF(conns)
    /\ pc' = "encoded"
    /\ UNCHANGED <<conns, addrVars, lineVars, scanVars, lookupVars>>

NextEnc == CallEncodeBPF

SpecEnc == InitEnc /\ [][NextEnc]_vars

\* the addresses of a connection list as the encoder meets them: the sources
\* of all connections, then the destinations
AllAddrs(cc) == [i \in 1..(2 * Len(cc)) |->
                    IF i <= Len(cc) THEN cc[i].Src ELSE cc[i - Len(cc)].Dst]

\* positions of AllAddrs(cc) where an address string appears for the first time
FirstSeen(cc) ==
    {i \in 1..(2 * Len(cc)) :
        \A j \in 1..(i - 1) : AddrString(AllAddrs(cc)[j]) # AddrString(AllAddrs(cc)[i])}

\* the elements of a set of numbers in increasing order
RECURSIVE Ascending(_)
Ascending(S) ==
    IF S = {} THEN <<>>
    ELSE LET m == CHOOSE x \in S : \A y \in S : x <= y
         IN  <<m>> \o Ascending(S \ {m})

\* "host <addr> and port <port>" written from the address itself
TermOf(a) == sHost \o a.ip \o sAndPort \o Itoa(a.port)

\* "host 192.168.0.61 and port 54104 or host ::1 and port 60051\n"
bpfExample ==
    <<"h", "o", "s", "t", " ", "1", "9", "2", ".", "1", "6", "8", ".", "0", ".", "6", "1", " ",
      "a", "n", "d", " ", "p", "o", "r", "t", " ", "5", "4", "1", "0", "4", " ", "o", "r", " ",
      "h", "o", "s", "t", " ", ":", ":", "1", " ", "a", "n", "d", " ", "p", "o", "r", "t", " ",
      "6", "0", "0", "5", "1", "\n">>

====
